---- MODULE Spec2Model ----
(***************************************************************************)
(* greyhound: reverse index (hash -> datasets) and the gather loop.        *)
(* The model follows src/core/src/lib.rs (src/src/main.rs holds the same   *)
(* functions in the single-binary layout).                                 *)
(*                                                                         *)
(* A sketch is the set of its hashes (KmerMinHash::mins of a scaled        *)
(* MinHash).  A reference file holds one template-compatible sketch       *)
(* unless its status says otherwise; the file at manifest position p       *)
(* (1-based here) has DatasetId p - 1, as par_iter().enumerate() numbers   *)
(* it.                                                                     *)
(***************************************************************************)
EXTENDS Integers, Sequences, FiniteSets, TLC

\* ---- bounds of the model ------------------------------------------------
MaxHash == 3
MaxRefs == 2
MaxQueries == 2
MaxThresholdBp == 2
MaxScaled == 1

\* usize::max_value(), the start value of `threshold` and `match_size`.
\* The model's integers are 32 bits wide; every count of the model is far
\* below it, which is all the code uses the value for.
UsizeMax == 2147483647

Hashes == 1..MaxHash
Sketches == SUBSET Hashes

\* All sequences over S of length lo..hi.
SeqsOf(S, lo, hi) == UNION {[1..n -> S] : n \in lo..hi}

VARIABLES
    ref_files,    \* reference signature files: manifest position -> sketch
    ref_status,   \* what reading a reference file gives: manifest position -> status
    index_file,   \* the persisted index written by `index`: <<document>>, or <<>>
    pc,           \* where the main thread is
    args,         \* arguments of the running gather command
    query_files,  \* query signature files: manifest position -> sketch
    query_names,  \* file name (last component) of each query path
    queries,      \* gather: the eagerly loaded query sketches
    build,        \* build_revindex call in progress: its arguments and parts
    revindex,     \* the RevIndex in memory
    refsigs,      \* gather: the preloaded reference sketches
    task,         \* gather: one task per query (par_iter over queries_path)
    outputs       \* output files of the gather: file name in outdir -> contents

vars == <<ref_files, ref_status, index_file, pc, args, query_files, query_names,
          queries, build, revindex, refsigs, task, outputs>>

\* Option<&[KmerMinHash]>
Some(qs) == [some |-> TRUE, qs |-> qs]
None == [some |-> FALSE, qs |-> <<>>]

\* ---- HashToIdx ------------------------------------------------------------
\* HashToIdx = HashMap<u64, HashSet<usize>>: a function from its keys.
EmptyMap == [h \in {} |-> {}]

MapLen(m) == Cardinality(DOMAIN m)

\* Mutant of InsertAll: the local map is started afresh for every query, so
\* the hashes matched by an earlier query are lost.
InsertAll_Fresh(m, hs, dataset_id) == [h \in hs |-> {dataset_id}]

\* hash_to_idx.insert(hash, {dataset_id}) for every hash of `hs`.
InsertAll(m, hs, dataset_id) ==
    [h \in (DOMAIN m) \cup hs |-> IF h \in hs THEN {dataset_id} ELSE m[h]]

\* KmerMinHash::intersection: the common hashes and the size of the union.
Intersection(a, b) == [common |-> a \cap b, size |-> Cardinality(a \cup b)]

\* The `for query in qs` loop of one reference, from query k on.
RECURSIVE InsertQueries(_, _, _, _, _, _)
InsertQueries(m, qs, k, search_mh, dataset_id, threshold) ==
    IF k > Len(qs) THEN m
    ELSE LET r == Intersection(qs[k], search_mh)
             m2 == IF r.common # {} \/ r.size > threshold
                   THEN InsertAll(m, r.common, dataset_id)
                   ELSE m
         IN InsertQueries(m2, qs, k + 1, search_mh, dataset_id, threshold)

\* Mutant of InsertMins: the two tests of the guard are joined by `and`.
InsertMins_Both(search_mh, dataset_id, threshold) ==
    IF search_mh # {} /\ Cardinality(search_mh) > threshold
    THEN InsertAll(EmptyMap, search_mh, dataset_id)
    ELSE EmptyMap

\* The `else` branch: no queries, every hash of the reference.
InsertMins(search_mh, dataset_id, threshold) ==
    IF search_mh # {} \/ Cardinality(search_mh) > threshold
    THEN InsertAll(EmptyMap, search_mh, dataset_id)
    ELSE EmptyMap

\* Mutant of LocalMap: the reference is recorded under its one-based position
\* in the manifest instead of its DatasetId.
LocalMap_OneBased(dataset_id, search_mh, qs, threshold) ==
    IF qs.some
    THEN InsertQueries(EmptyMap, qs.qs, 1, search_mh, dataset_id + 1, threshold)
    ELSE InsertMins(search_mh, dataset_id + 1, threshold)

\* The closure of filter_map for one reference: its local map.  A reference
\* with an empty local map yields None, which reduce never sees; the empty
\* map stands for it, being the identity of the reduction.
LocalMap(dataset_id, search_mh, qs, threshold) ==
    IF qs.some
    THEN InsertQueries(EmptyMap, qs.qs, 1, search_mh, dataset_id, threshold)
    ELSE InsertMins(search_mh, dataset_id, threshold)

\* Mutant of MergeInto: on a key of both maps the set of the smaller map
\* replaces that of the larger (insert instead of entry().or_insert_with and
\* extend).
MergeInto_Overwrite(small, large) ==
    [h \in (DOMAIN large) \cup (DOMAIN small) |->
        IF h \in DOMAIN small THEN small[h] ELSE large[h]]

\* The reduce operator |a, b|: the smaller map is folded into the larger.
MergeInto(small, large) ==
    [h \in (DOMAIN large) \cup (DOMAIN small) |->
        (IF h \in DOMAIN large THEN large[h] ELSE {})
        \cup (IF h \in DOMAIN small THEN small[h] ELSE {})]

\* Mutant of Merge: when the first map is the larger one it is returned as it
\* is, the second map is not folded into it.
Merge_KeepLarger(a, b) ==
    IF MapLen(a) > MapLen(b) THEN a ELSE MergeInto(a, b)

Merge(a, b) ==
    IF MapLen(a) > MapLen(b) THEN MergeInto(b, a) ELSE MergeInto(a, b)

\* ---- persistence ------------------------------------------------------------
\* The elements of a set of integers in ascending order.
RECURSIVE Ascending(_)
Ascending(S) ==
    IF S = {} THEN <<>>
    ELSE LET x == CHOOSE y \in S : \A z \in S : y <= z
         IN <<x>> \o Ascending(S \ {x})

\* Mutant of Serialize: of the set of a key only the smallest id is written.
Serialize_FirstId(r) ==
    [hash_to_idx |->
        LET ks == Ascending(DOMAIN r.hash_to_idx)
        IN [i \in 1..Len(ks) |-> <<ks[i], SubSeq(Ascending(r.hash_to_idx[ks[i]]), 1, 1)>>],
     sig_files |-> r.sig_files]

\* serde_json::to_writer(&revindex): the map becomes a list of
\* (key, list of ids) entries, the set of a key a list.  The order in which
\* a container is written is its iteration order, which the reader does not
\* depend on; the model writes in ascending order.
Serialize(r) ==
    [hash_to_idx |->
        LET ks == Ascending(DOMAIN r.hash_to_idx)
        IN [i \in 1..Len(ks) |-> <<ks[i], Ascending(r.hash_to_idx[ks[i]])>>],
     sig_files |-> r.sig_files]

\* serde_json::from_reader: entries are inserted one by one into a fresh map,
\* the ids of an entry one by one into a fresh set.
RECURSIVE ReadEntries(_, _, _)
ReadEntries(m, entries, k) ==
    IF k > Len(entries) THEN m
    ELSE LET h == entries[k][1]
             ids == {entries[k][2][j] : j \in 1..Len(entries[k][2])}
         IN ReadEntries([x \in (DOMAIN m) \cup {h} |-> IF x = h THEN ids ELSE m[x]],
                        entries, k + 1)

Deserialize(doc) ==
    [hash_to_idx |-> ReadEntries(EmptyMap, doc.hash_to_idx, 1),
     sig_files |-> doc.sig_files]

\* Mutant of Retain: a retained key starts again from an empty set.
Retain_Emptied(m, hashes) == [h \in (DOMAIN m) \cap hashes |-> {}]

\* hash_to_idx.retain(|hash, _| hashes.contains(hash))
Retain(m, hashes) == [h \in (DOMAIN m) \cap hashes |-> m[h]]

\* The `for q in qs` loop of load_revindex, from query k on.
RECURSIVE RetainQueries(_, _, _)
RetainQueries(m, qs, k) ==
    IF k > Len(qs) THEN m
    ELSE RetainQueries(Retain(m, qs[k]), qs, k + 1)

load_revindex(doc, qs) ==
    LET r == Deserialize(doc)
    IN IF qs.some
       THEN [r EXCEPT !.hash_to_idx = RetainQueries(r.hash_to_idx, qs.qs, 1)]
       ELSE r

\* Mutant of build_counter: the branch for no query is taken, every key of the
\* index counts.
build_counter_all(r, q) ==
    LET ids == UNION {r.hash_to_idx[h] : h \in DOMAIN r.hash_to_idx}
    IN [d \in ids |-> Cardinality({h \in DOMAIN r.hash_to_idx : d \in r.hash_to_idx[h]})]

\* ---- counter ------------------------------------------------------------------
\* build_counter with Some(query): the ids of every key that is a hash of the
\* query, flattened and counted.  A Counter holds only the ids it was given.
build_counter(r, q) ==
    LET hit == {h \in DOMAIN r.hash_to_idx : h \in q}
        ids == UNION {r.hash_to_idx[h] : h \in hit}
    IN [d \in ids |-> Cardinality({h \in hit : d \in r.hash_to_idx[h]})]

\* counter.most_common()[0]: an entry of highest count.  most_common sorts the
\* entries of a HashMap by count alone, so among equal counts the first is
\* whichever the map's iteration order puts first.
MostCommon(counter) ==
    {d \in DOMAIN counter : \A e \in DOMAIN counter : counter[e] <= counter[d]}

\* Mutant of DecrementAll: the counts of the other datasets are left alone.
DecrementAll_NoOp(counter, dataset_ids) == counter

\* Mutant of DecrementAll: the count is decremented without the test for 0.
DecrementAll_Unclamped(counter, dataset_ids) ==
    [d \in DOMAIN counter |-> IF d \in dataset_ids THEN counter[d] - 1 ELSE counter[d]]

\* Mutant of DecrementAll: of the datasets of a hash only the one with the
\* smallest id is decremented.
DecrementAll_First(counter, dataset_ids) ==
    [d \in DOMAIN counter |->
        IF d \in dataset_ids /\ (\A e \in dataset_ids : d <= e) /\ counter[d] > 0
        THEN counter[d] - 1 ELSE counter[d]]

\* Mutant of DecrementAll: a dataset that is not in the counter is entered
\* with count 0 (entry().or_insert(0)).
DecrementAll_Insert(counter, dataset_ids) ==
    [d \in (DOMAIN counter) \cup dataset_ids |->
        IF d \in DOMAIN counter
        THEN (IF d \in dataset_ids /\ counter[d] > 0 THEN counter[d] - 1 ELSE counter[d])
        ELSE 0]

\* counter.entry(dataset).and_modify(|e| if *e > 0 { *e -= 1 }) for every
\* dataset of one hash's id set.
DecrementAll(counter, dataset_ids) ==
    [d \in DOMAIN counter |->
        IF d \in dataset_ids /\ counter[d] > 0 THEN counter[d] - 1 ELSE counter[d]]

\* The `for hash in match_mh.iter_mins()` loop.
RECURSIVE Subtract(_, _, _)
Subtract(counter, hashes, m) ==
    IF hashes = {} THEN counter
    ELSE LET hash == CHOOSE x \in hashes : \A y \in hashes : x <= y
         IN Subtract(IF hash \in DOMAIN m THEN DecrementAll(counter, m[hash]) ELSE counter,
                     hashes \ {hash}, m)

\* Mutant of Remove: the selected dataset stays in the counter.
Remove_Kept(counter, dataset_id) == counter

\* counter.remove(&dataset_id)
Remove(counter, dataset_id) == [d \in (DOMAIN counter) \ {dataset_id} |-> counter[d]]

\* Mutant of Threshold: the scaled factor is left out of the divisor.
Threshold_Unscaled(threshold_bp, size, scaled) == threshold_bp \div size

\* threshold_bp / (size * scaled), for size * scaled > 0
Threshold(threshold_bp, size, scaled) == threshold_bp \div (size * scaled)

Min(a, b) == IF a < b THEN a ELSE b

\* ---- the two commands ---------------------------------------------------------
\* Arguments of `gather`; ksize and the output directory do not enter the model.
Args ==
    [threshold_bp : 0..MaxThresholdBp, scaled : 1..MaxScaled,
     from_file : BOOLEAN, lazy : BOOLEAN, preload : BOOLEAN]

\* search_sigs of a build: one slot per reference, in manifest order.  A slot
\* becomes done when filter_map has run on it; reduce then combines done
\* neighbours, in any grouping.  `id` is the DatasetId of the slot's first
\* reference.
PendingParts ==
    [p \in 1..Len(ref_files) |-> [id |-> p - 1, done |-> FALSE, map |-> EmptyMap]]

Building == pc \in {"index_build", "gather_build"}

\* The reduction is complete: nothing left to map or to combine.
Reduced == Len(build.parts) = 0 \/ (Len(build.parts) = 1 /\ build.parts[1].done)

\* The value of reduce: the identity for no reference at all.
ReducedMap == IF Len(build.parts) = 0 THEN EmptyMap ELSE build.parts[1].map

\* sig_files: search_sigs.into(); a path is named by its manifest position.
SigFiles == [p \in 1..Len(ref_files) |-> p]

\* One task of `queries_path.par_iter().enumerate().for_each`, before it runs.
NewTask ==
    [pc |-> "waiting", query |-> {}, counter |-> EmptyMap, threshold |-> 0,
     match_size |-> UsizeMax, matches |-> <<>>, sizes |-> <<>>]

\* The minimum of threshold_bp / (mh.size() * scaled) over the queries, from
\* usize::max_value().
RECURSIVE BatchThreshold(_, _, _, _)
BatchThreshold(threshold, qs, k, a) ==
    IF k > Len(qs) THEN threshold
    ELSE BatchThreshold(Min(threshold, Threshold(a.threshold_bp, Cardinality(qs[k]), a.scaled)),
                        qs, k + 1, a)

\* --preload reads every reference of sig_files; sig_files of a persisted
\* index is the manifest it was built from.
PreloadOk(a) == a.preload => \A p \in 1..Len(ref_files) : ref_status[p] # "unreadable"

\* refsigs: every reference of sig_files loaded when --preload, else empty.
Preloaded(r, a) ==
    IF a.preload THEN [p \in 1..Len(r.sig_files) |-> ref_files[r.sig_files[p]]] ELSE <<>>

\* Before any command has run: no index in memory, no build, no arguments.
NoIndex == [hash_to_idx |-> EmptyMap, sig_files |-> <<>>]
NoBuild == [queries |-> None, threshold |-> 0, parts |-> <<>>]
NoArgs == [threshold_bp |-> 0, scaled |-> 1, from_file |-> FALSE, lazy |-> FALSE,
           preload |-> FALSE]

\* The program uses a hash only as a key: it compares hashes for equality and
\* never orders or computes with them.  Renaming the hashes of all files alike
\* therefore changes no behaviour, and of all renamings of a set of reference
\* files the model keeps one: the hashes are numbered by decreasing
\* membership pattern (the references a hash is in, read as a binary number
\* with the first reference as its lowest bit).  The query files range over
\* every sketch.
RECURSIVE Pattern(_, _, _)
Pattern(refs, h, p) ==
    IF p > Len(refs) THEN 0
    ELSE (IF h \in refs[p] THEN 1 ELSE 0) + 2 * Pattern(refs, h, p + 1)

Canonical(refs) ==
    \A h \in Hashes, g \in Hashes : h < g => Pattern(refs, h, 1) >= Pattern(refs, g, 1)

Init ==
    /\ ref_files \in {refs \in SeqsOf(Sketches, 0, MaxRefs) : Canonical(refs)}
    /\ ref_status = [p \in 1..Len(ref_files) |-> "ok"]
    /\ index_file = <<>>
    /\ pc = "idle"
    /\ args = NoArgs
    /\ query_files = <<>>
    /\ query_names = <<>>
    /\ queries = <<>>
    /\ build = NoBuild
    /\ revindex = NoIndex
    /\ refsigs = <<>>
    /\ task = <<>>
    /\ outputs = <<>>

\* `index`: build_revindex(&index_sigs, &template, 0, None) starts.
IndexBegin ==
    /\ pc = "idle"
    /\ index_file = <<>>
    /\ build' = [queries |-> None, threshold |-> 0, parts |-> PendingParts]
    /\ pc' = "index_build"
    /\ UNCHANGED <<ref_files, ref_status, query_names,
                   index_file, args, query_files, queries, revindex,
                   refsigs, task, outputs>>

\* Mutant of BuildMap: a reference that cannot be used counts as an empty
\* sketch, and the build goes on without it.
BuildMap_Lenient(k) ==
    /\ Building
    /\ k \in 1..Len(build.parts)
    /\ ~build.parts[k].done
    /\ LET d == build.parts[k].id
           search_mh == IF ref_status[d + 1] = "ok" THEN ref_files[d + 1] ELSE {}
       IN build' = [build EXCEPT !.parts[k] =
                      [id |-> d, done |-> TRUE,
                       map |-> LocalMap(d, search_mh, build.queries, build.threshold)]]
    /\ UNCHANGED <<ref_files, ref_status, query_names,
                   index_file, pc, args, query_files, queries, revindex,
                   refsigs, task, outputs>>

\* filter_map on the reference of slot k: the file is read and holds a
\* sketch compatible with the template.
BuildMap(k) ==
    /\ Building
    /\ k \in 1..Len(build.parts)
    /\ ~build.parts[k].done
    /\ ref_status[build.parts[k].id + 1] = "ok"
    /\ LET d == build.parts[k].id
       IN build' = [build EXCEPT !.parts[k] =
                      [id |-> d, done |-> TRUE,
                       map |-> LocalMap(d, ref_files[d + 1], build.queries, build.threshold)]]
    /\ UNCHANGED <<ref_files, ref_status, query_names,
                   index_file, pc, args, query_files, queries, revindex,
                   refsigs, task, outputs>>

\* reduce on the neighbours k and k + 1.
BuildReduce(k) ==
    /\ Building
    /\ k \in 1..(Len(build.parts) - 1)
    /\ build.parts[k].done
    /\ build.parts[k + 1].done
    /\ LET merged == [id |-> build.parts[k].id, done |-> TRUE,
                      map |-> Merge(build.parts[k].map, build.parts[k + 1].map)]
       IN build' = [build EXCEPT !.parts =
                      [j \in 1..(Len(build.parts) - 1) |->
                          IF j < k THEN build.parts[j]
                          ELSE IF j = k THEN merged
                          ELSE build.parts[j + 1]]]
    /\ UNCHANGED <<ref_files, ref_status, query_names,
                   index_file, pc, args, query_files, queries, revindex,
                   refsigs, task, outputs>>

\* `index`: build_revindex returns.
IndexBuilt ==
    /\ pc = "index_build"
    /\ Reduced
    /\ revindex' = [hash_to_idx |-> ReducedMap, sig_files |-> SigFiles]
    /\ build' = NoBuild
    /\ pc' = "index_save"
    /\ UNCHANGED <<ref_files, ref_status, query_names,
                   index_file, args, query_files, queries, refsigs, task, outputs>>

\* `index`: the index is written and the command ends.
IndexSave ==
    /\ pc = "index_save"
    /\ index_file' = <<Serialize(revindex)>>
    /\ revindex' = NoIndex
    /\ pc' = "idle"
    /\ UNCHANGED <<ref_files, ref_status, query_names,
                   args, query_files, queries, build, refsigs, task, outputs>>

\* `gather` up to the parallel region over the queries, or up to the start
\* of the build with --from-file.  <SIGLIST> is the manifest with --from-file
\* and the persisted index without.  `names` are the file names of the query
\* paths of the manifest.
GatherBegin(a, qf, names) ==
    /\ pc = "idle"
    /\ a.from_file <=> index_file = <<>>
    /\ args' = a
    /\ query_files' = qf
    /\ query_names' = names
    /\ LET eager == ~a.lazy \/ a.from_file
       IN \/ \* threshold_bp / (mh.size() * scaled) divides by zero
             /\ eager
             /\ \E k \in 1..Len(qf) : qf[k] = {}
             /\ pc' = "panicked"
             /\ UNCHANGED <<queries, build, revindex, refsigs, task>>
          \/ /\ eager
             /\ \A k \in 1..Len(qf) : qf[k] # {}
             /\ a.from_file
             /\ queries' = qf
             /\ build' = [queries |-> Some(qf), threshold |-> BatchThreshold(UsizeMax, qf, 1, a),
                          parts |-> PendingParts]
             /\ pc' = "gather_build"
             /\ UNCHANGED <<revindex, refsigs, task>>
          \/ /\ eager
             /\ \A k \in 1..Len(qf) : qf[k] # {}
             /\ ~a.from_file
             /\ PreloadOk(a)
             /\ queries' = qf
             /\ revindex' = load_revindex(index_file[1], Some(qf))
             /\ refsigs' = Preloaded(revindex', a)
             /\ task' = [i \in 1..Len(qf) |-> NewTask]
             /\ pc' = "tasks"
             /\ UNCHANGED build
          \/ /\ ~eager
             /\ PreloadOk(a)
             /\ queries' = <<>>
             /\ revindex' = load_revindex(index_file[1], None)
             /\ refsigs' = Preloaded(revindex', a)
             /\ task' = [i \in 1..Len(qf) |-> NewTask]
             /\ pc' = "tasks"
             /\ UNCHANGED build
    /\ UNCHANGED <<ref_files, ref_status, index_file, outputs>>

\* Every query path of the manifest has a file name of its own: the name of
\* a path is its manifest position.
OwnNames(qf) == [i \in 1..Len(qf) |-> i]

\* `gather --from-file`: build_revindex returns; preload; the tasks are set up.
GatherBuilt ==
    /\ pc = "gather_build"
    /\ Reduced
    /\ revindex' = [hash_to_idx |-> ReducedMap, sig_files |-> SigFiles]
    /\ refsigs' = Preloaded(revindex', args)
    /\ task' = [i \in 1..Len(query_files) |-> NewTask]
    /\ pc' = "tasks"
    /\ UNCHANGED <<ref_files, ref_status, query_names,
                   index_file, args, query_files, queries, build, outputs>>

\* The matches of task i are written to outdir/<file name of its query path>;
\* File::create truncates a file that is there.
Saved(i) ==
    [f \in (DOMAIN outputs) \cup {query_names[i]} |->
        IF f = query_names[i] THEN task[i].matches ELSE outputs[f]]

\* Task i, from its start to the gather loop: the query is loaded (--lazy)
\* or cloned, the counter and the threshold of the query are computed.
TaskStart(i) ==
    /\ pc = "tasks"
    /\ i \in DOMAIN task
    /\ task[i].pc = "waiting"
    /\ LET query == IF args.lazy THEN query_files[i] ELSE queries[i]
       IN \/ \* mh.size() == 0: return
             /\ args.lazy
             /\ query = {}
             /\ task' = [task EXCEPT ![i].pc = "skipped"]
          \/ /\ query # {}
             /\ task' = [task EXCEPT ![i] =
                            [pc |-> "loop", query |-> query,
                             counter |-> build_counter(revindex, query),
                             threshold |-> Threshold(args.threshold_bp, Cardinality(query),
                                                     args.scaled),
                             match_size |-> UsizeMax, matches |-> <<>>, sizes |-> <<>>]]
    /\ UNCHANGED <<ref_files, ref_status, query_names,
                   index_file, pc, args, query_files, queries, build,
                   revindex, refsigs, outputs>>

\* Mutant of Accepts: the best entry is taken whatever its count.
Accepts_Always(size, threshold) == TRUE

\* match_size = if size >= threshold { size } else { break }
Accepts(size, threshold) == size >= threshold

\* while match_size > threshold && !counter.is_empty()
LoopCondition(t) == t.match_size > t.threshold /\ DOMAIN t.counter # {}

\* The match can be used: without --preload its file is read now, and the
\* signature holds a sketch compatible with the template.
MatchLoads(dataset_id) ==
    LET status == ref_status[revindex.sig_files[dataset_id + 1]]
    IN IF args.preload THEN status # "no_sketch" ELSE status = "ok"

\* The sketch of the match: refsigs[dataset_id] when preloaded, else loaded
\* from sig_files[dataset_id].
MatchSketch(dataset_id) ==
    IF args.preload THEN refsigs[dataset_id + 1]
    ELSE ref_files[revindex.sig_files[dataset_id + 1]]

\* One iteration of the gather loop of task i; on `break` the task goes on
\* to write its output.
TaskIter(i) ==
    /\ pc = "tasks"
    /\ i \in DOMAIN task
    /\ task[i].pc = "loop"
    /\ LoopCondition(task[i])
    /\ \E dataset_id \in MostCommon(task[i].counter) :
         LET size == task[i].counter[dataset_id]
         IN \/ /\ ~Accepts(size, task[i].threshold)
               /\ task' = [task EXCEPT ![i].pc = "finished"]
               /\ outputs' = Saved(i)
            \/ /\ Accepts(size, task[i].threshold)
               /\ MatchLoads(dataset_id)
               /\ task' = [task EXCEPT
                    ![i].match_size = size,
                    ![i].matches = Append(@, revindex.sig_files[dataset_id + 1]),
                    ![i].sizes = Append(@, size),
                    ![i].counter = Remove(Subtract(@, MatchSketch(dataset_id),
                                                   revindex.hash_to_idx),
                                          dataset_id)]
               /\ UNCHANGED outputs
    /\ UNCHANGED <<ref_files, ref_status, query_names,
                   index_file, pc, args, query_files, queries, build,
                   revindex, refsigs>>

\* The loop condition is false: task i writes its output and ends.
TaskSave(i) ==
    /\ pc = "tasks"
    /\ i \in DOMAIN task
    /\ task[i].pc = "loop"
    /\ ~LoopCondition(task[i])
    /\ task' = [task EXCEPT ![i].pc = "finished"]
    /\ outputs' = Saved(i)
    /\ UNCHANGED <<ref_files, ref_status, query_names,
                   index_file, pc, args, query_files, queries, build,
                   revindex, refsigs>>

\* for_each has returned: `gather` ends.
GatherEnd ==
    /\ pc = "tasks"
    /\ \A i \in DOMAIN task : task[i].pc \in {"finished", "skipped"}
    /\ pc' = "done"
    /\ UNCHANGED <<ref_files, ref_status, query_names,
                   index_file, args, query_files, queries, build,
                   revindex, refsigs, task, outputs>>

Next ==
    \/ IndexBegin
    \/ \E k \in 1..MaxRefs : BuildMap(k)
    \/ \E k \in 1..MaxRefs : BuildReduce(k)
    \/ IndexBuilt
    \/ IndexSave
    \/ \E a \in Args, qf \in SeqsOf(Sketches, 0, MaxQueries) :
          GatherBegin(a, qf, OwnNames(qf))
    \/ GatherBuilt
    \/ \E i \in 1..MaxQueries : TaskStart(i)
    \/ \E i \in 1..MaxQueries : TaskIter(i)
    \/ \E i \in 1..MaxQueries : TaskSave(i)
    \/ GatherEnd

Spec == Init /\ [][Next]_vars

\* ---- reference files that cannot be used -------------------------------------
\* In Spec every reference file reads and holds a compatible sketch.  Here a
\* file of the manifest is replaced on disk between two commands: by one that
\* Signature::from_path cannot read or parse ("unreadable"), or by one whose
\* signatures hold no sketch compatible with the template ("no_sketch").
MaxFaultQueries == 3

Damage(p, status) ==
    /\ pc = "idle"
    /\ p \in 1..Len(ref_files)
    /\ \A q \in 1..Len(ref_files) : ref_status[q] = "ok"
    /\ ref_status' = [ref_status EXCEPT ![p] = status]
    /\ UNCHANGED <<ref_files, index_file, pc, args, query_files, query_names, queries,
                   build, revindex, refsigs, task, outputs>>

\* filter_map on the reference of slot k panics: from_path fails
\* (unwrap_or_else(panic!)), or no sketch was selected (search_mh.unwrap()).
\* The panic of a rayon job is resumed in the caller of the parallel
\* iterator: build_revindex does not return.
BuildPanic(k) ==
    /\ Building
    /\ k \in 1..Len(build.parts)
    /\ ~build.parts[k].done
    /\ ref_status[build.parts[k].id + 1] # "ok"
    /\ pc' = "build_panicked"
    /\ UNCHANGED <<ref_files, ref_status, index_file, args, query_files, query_names,
                   queries, build, revindex, refsigs, task, outputs>>

\* `gather --preload` on a persisted index: the queries and the index are
\* loaded, then reading a reference for refsigs panics.
PreloadPanic(a, qf, names) ==
    /\ pc = "idle"
    /\ index_file # <<>>
    /\ ~a.from_file
    /\ a.lazy \/ \A k \in 1..Len(qf) : qf[k] # {}
    /\ ~PreloadOk(a)
    /\ args' = a
    /\ query_files' = qf
    /\ query_names' = names
    /\ queries' = IF a.lazy THEN <<>> ELSE qf
    /\ revindex' = load_revindex(index_file[1], IF a.lazy THEN None ELSE Some(qf))
    /\ pc' = "preload_panicked"
    /\ UNCHANGED <<ref_files, ref_status, index_file, build, refsigs, task, outputs>>

\* An iteration of the gather loop of task i panics after the selection: the
\* file of the match does not read, or match_mh.unwrap() finds no sketch.
\* The task ends there and writes no output.
TaskPanic(i) ==
    /\ pc = "tasks"
    /\ i \in DOMAIN task
    /\ task[i].pc = "loop"
    /\ LoopCondition(task[i])
    /\ \E dataset_id \in MostCommon(task[i].counter) :
          /\ Accepts(task[i].counter[dataset_id], task[i].threshold)
          /\ ~MatchLoads(dataset_id)
          /\ task' = [task EXCEPT ![i].pc = "panicked",
                                  ![i].match_size = task[i].counter[dataset_id]]
    /\ UNCHANGED <<ref_files, ref_status, index_file, pc, args, query_files, query_names,
                   queries, build, revindex, refsigs, outputs>>

\* par_iter().enumerate().for_each over n queries: rayon halves the range at
\* n / 2 at least once (a pool has at least one thread) and runs both halves
\* even when one panics; how far a half is split further depends on the pool.
\* A piece that is not split is run in order by one job, and a panic in it
\* unwinds past the queries that follow in the piece.  Positions i < j can be
\* in one piece when the first cut does not fall between them.
OnePiece(i, j, n) == ~(i <= n \div 2 /\ n \div 2 < j)

\* Task j has not started and never will: a task before it, of its piece, has
\* panicked, and nothing between them has run.
Dropped(j) ==
    /\ task[j].pc = "waiting"
    /\ \E i \in 1..(j - 1) :
          /\ task[i].pc = "panicked"
          /\ OnePiece(i, j, Len(task))
          /\ \A k \in (i + 1)..j : task[k].pc = "waiting"

\* for_each resumes the panic of a task once no job is left: `gather` panics.
GatherAbort ==
    /\ pc = "tasks"
    /\ \E i \in DOMAIN task : task[i].pc = "panicked"
    /\ \A j \in DOMAIN task :
          task[j].pc \in {"finished", "skipped", "panicked"} \/ Dropped(j)
    /\ pc' = "gather_panicked"
    /\ UNCHANGED <<ref_files, ref_status, index_file, args, query_files, query_names,
                   queries, build, revindex, refsigs, task, outputs>>

\* The commands of the runs with a damaged reference: the threshold is 0 and
\* every query sketch holds one hash, in batches of up to MaxFaultQueries.
FaultArgs == {a \in Args : a.threshold_bp = 0}
FaultBatches == SeqsOf({q \in Sketches : Cardinality(q) = 1}, 1, MaxFaultQueries)

NextFaults ==
    \/ IndexBegin
    \/ \E k \in 1..MaxRefs : BuildMap(k)
    \/ \E k \in 1..MaxRefs : BuildReduce(k)
    \/ IndexBuilt
    \/ IndexSave
    \/ \E a \in FaultArgs, qf \in FaultBatches : GatherBegin(a, qf, OwnNames(qf))
    \/ GatherBuilt
    \/ \E i \in 1..MaxFaultQueries : TaskStart(i)
    \/ \E i \in 1..MaxFaultQueries : TaskIter(i)
    \/ \E i \in 1..MaxFaultQueries : TaskSave(i)
    \/ GatherEnd
    \/ \E p \in 1..MaxRefs, status \in {"unreadable", "no_sketch"} : Damage(p, status)
    \/ \E k \in 1..MaxRefs : BuildPanic(k)
    \/ \E a \in FaultArgs, qf \in FaultBatches : PreloadPanic(a, qf, OwnNames(qf))
    \/ \E i \in 1..MaxFaultQueries : TaskPanic(i)
    \/ GatherAbort

SpecFaults == Init /\ [][NextFaults]_vars

\* ---- query paths with the same file name ---------------------------------------
\* In Spec the query paths of a manifest have file names of their own.  Here
\* two paths may end in the same name (a/q.sig and b/q.sig, or one path
\* listed twice); a name is the position of the first path that has it.
\* The arguments that have no part in naming the output are fixed.
NameArgs == {a \in Args : a.threshold_bp = 0 /\ a.lazy /\ ~a.preload}

Names(qf) ==
    {names \in [1..Len(qf) -> 1..Len(qf)] :
        \A i \in 1..Len(qf) : names[i] <= i /\ names[names[i]] = names[i]}

NextNames ==
    \/ IndexBegin
    \/ \E k \in 1..MaxRefs : BuildMap(k)
    \/ \E k \in 1..MaxRefs : BuildReduce(k)
    \/ IndexBuilt
    \/ IndexSave
    \/ \E a \in NameArgs, qf \in SeqsOf(Sketches, 0, MaxQueries) :
          \E names \in Names(qf) : GatherBegin(a, qf, names)
    \/ GatherBuilt
    \/ \E i \in 1..MaxQueries : TaskStart(i)
    \/ \E i \in 1..MaxQueries : TaskIter(i)
    \/ \E i \in 1..MaxQueries : TaskSave(i)
    \/ GatherEnd

SpecNames == Init /\ [][NextNames]_vars

\* ---- builds of larger manifests ------------------------------------------------
\* build_revindex alone, with one reference more than in Spec, so that the
\* reduction has more than one grouping: `index`, and `gather --from-file` up
\* to the end of the build.
MaxBuildRefs == 3

BuildArgs == {a \in Args : a.from_file /\ ~a.lazy /\ ~a.preload}

InitBuild ==
    /\ ref_files \in {refs \in SeqsOf(Sketches, 0, MaxBuildRefs) : Canonical(refs)}
    /\ ref_status = [p \in 1..Len(ref_files) |-> "ok"]
    /\ index_file = <<>>
    /\ pc = "idle"
    /\ args = NoArgs
    /\ query_files = <<>>
    /\ query_names = <<>>
    /\ queries = <<>>
    /\ build = NoBuild
    /\ revindex = NoIndex
    /\ refsigs = <<>>
    /\ task = <<>>
    /\ outputs = <<>>

NextBuild ==
    \/ IndexBegin
    \/ \E k \in 1..MaxBuildRefs : BuildMap(k)
    \/ \E k \in 1..MaxBuildRefs : BuildReduce(k)
    \/ IndexBuilt
    \/ IndexSave
    \/ \E a \in BuildArgs, qf \in SeqsOf(Sketches \ {{}}, 1, MaxQueries) :
          GatherBegin(a, qf, OwnNames(qf))
    \/ GatherBuilt

SpecBuild == InitBuild /\ [][NextBuild]_vars

\* ---- the strict-subtraction scenario -------------------------------------------
\* Two references that overlap in two hashes and a query that holds the four
\* hashes of both; the threshold of the query is threshold_bp / 4, up to 2.
MaxScenarioBp == 8

ScenarioRefs == <<{1, 2, 3}, {2, 3, 4}>>
ScenarioQuery == {1, 2, 3, 4}

ScenarioArgs ==
    [threshold_bp : 0..MaxScenarioBp, scaled : {1},
     from_file : BOOLEAN, lazy : BOOLEAN, preload : BOOLEAN]

InitScenario ==
    /\ ref_files = ScenarioRefs
    /\ ref_status = [p \in 1..Len(ref_files) |-> "ok"]
    /\ index_file = <<>>
    /\ pc = "idle"
    /\ args = NoArgs
    /\ query_files = <<>>
    /\ query_names = <<>>
    /\ queries = <<>>
    /\ build = NoBuild
    /\ revindex = NoIndex
    /\ refsigs = <<>>
    /\ task = <<>>
    /\ outputs = <<>>

NextScenario ==
    \/ IndexBegin
    \/ \E k \in 1..Len(ScenarioRefs) : BuildMap(k)
    \/ \E k \in 1..Len(ScenarioRefs) : BuildReduce(k)
    \/ IndexBuilt
    \/ IndexSave
    \/ \E a \in ScenarioArgs : GatherBegin(a, <<ScenarioQuery>>, <<1>>)
    \/ GatherBuilt
    \/ TaskStart(1)
    \/ TaskIter(1)
    \/ TaskSave(1)
    \/ GatherEnd

SpecScenario == InitScenario /\ [][NextScenario]_vars

\* ---- thresholds -----------------------------------------------------------------
\* Gathers with scaled above 1 and a wider range of threshold_bp, on manifests
\* of at most one reference.
MaxQuotientBp == 5
MaxQuotientScaled == 2
MaxQuotientRefs == 1

QuotientArgs ==
    [threshold_bp : 0..MaxQuotientBp, scaled : 1..MaxQuotientScaled,
     from_file : BOOLEAN, lazy : BOOLEAN, preload : BOOLEAN]

InitQuotient ==
    /\ ref_files \in {refs \in SeqsOf(Sketches, 0, MaxQuotientRefs) : Canonical(refs)}
    /\ ref_status = [p \in 1..Len(ref_files) |-> "ok"]
    /\ index_file = <<>>
    /\ pc = "idle"
    /\ args = NoArgs
    /\ query_files = <<>>
    /\ query_names = <<>>
    /\ queries = <<>>
    /\ build = NoBuild
    /\ revindex = NoIndex
    /\ refsigs = <<>>
    /\ task = <<>>
    /\ outputs = <<>>

NextQuotient ==
    \/ IndexBegin
    \/ \E k \in 1..MaxQuotientRefs : BuildMap(k)
    \/ IndexBuilt
    \/ IndexSave
    \/ \E a \in QuotientArgs, qf \in SeqsOf(Sketches, 0, MaxQueries) :
          GatherBegin(a, qf, OwnNames(qf))
    \/ GatherBuilt
    \/ \E i \in 1..MaxQueries : TaskStart(i)
    \/ \E i \in 1..MaxQueries : TaskIter(i)
    \/ \E i \in 1..MaxQueries : TaskSave(i)
    \/ GatherEnd

SpecQuotient == InitQuotient /\ [][NextQuotient]_vars

\* ---- what the claims speak of ---------------------------------------------------
\* build_revindex run on one thread: the local maps are reduced from the
\* first reference to the last, starting from the identity.
RECURSIVE build_sequential(_, _, _, _)
build_sequential(acc, p, qs, threshold) ==
    IF p > Len(ref_files) THEN acc
    ELSE build_sequential(Merge(acc, LocalMap(p - 1, ref_files[p], qs, threshold)),
                          p + 1, qs, threshold)

\* The gather command has an index in memory.
IndexReady == pc \in {"tasks", "done"}

\* The tasks whose gather loop has started.
InLoop == {i \in DOMAIN task : task[i].pc \in {"loop", "finished"}}

\* The sketch of the reference with that DatasetId.
SketchOf(dataset_id) == ref_files[dataset_id + 1]

\* The hashes of the matches task record t has chosen so far.
ChosenHashes(t) == UNION {ref_files[t.matches[k]] : k \in 1..Len(t.matches)}

\* |query \cap sketch(d) \ chosen matches|
Residual(t, dataset_id) ==
    Cardinality((t.query \cap SketchOf(dataset_id)) \ ChosenHashes(t))

\* The union of the eagerly loaded query sketches.
QueryUnion == UNION {queries[k] : k \in 1..Len(queries)}

\* The inverted index of the reference files, restricted to the hashes of `keep`.
Inverted(keep) ==
    [h \in {x \in keep : \E p \in 1..Len(ref_files) : x \in ref_files[p]} |->
        {p - 1 : p \in {q \in 1..Len(ref_files) : h \in ref_files[q]}}]

RECURSIVE SumSeq(_)
SumSeq(xs) == IF xs = <<>> THEN 0 ELSE Head(xs) + SumSeq(Tail(xs))

\* The local maps of the build in progress (or just ended), by manifest
\* position.
LocalMaps ==
    [p \in 1..Len(ref_files) |->
        LocalMap(p - 1, ref_files[p], build.queries, build.threshold)]

\* The key-wise union of the maps ms[lo..hi].
KeywiseUnion(ms, lo, hi) ==
    [h \in UNION {DOMAIN ms[p] : p \in lo..hi} |->
        UNION {ms[p][h] : p \in {q \in lo..hi : h \in DOMAIN ms[q]}}]

\* The last manifest position that part k of the build stands for.
PartEnd(k) ==
    IF k < Len(build.parts) THEN build.parts[k + 1].id ELSE Len(ref_files)

\* The number of (hash of the match, dataset d in hash_to_idx[hash]) pairs
\* for the dataset d, the match being the reference at manifest position p.
Pairs(p, d) ==
    Cardinality({h \in ref_files[p] \cap DOMAIN revindex.hash_to_idx :
                    d \in revindex.hash_to_idx[h]})

\* Values of the threshold argument of build_revindex: the quotients of the
\* model, one above them, and the start value of the minimum.
ThresholdValues == (0..(MaxThresholdBp + 1)) \cup {UsizeMax}

\* The gather loop of one query run to its end on the index r: the set of
\* match lists it can end with, one for every way the ties can fall.
RECURSIVE LoopResults(_, _, _, _, _)
LoopResults(r, counter, threshold, match_size, matches) ==
    IF ~(match_size > threshold /\ DOMAIN counter # {}) THEN {matches}
    ELSE UNION {
        IF ~Accepts(counter[d], threshold) THEN {matches}
        ELSE LoopResults(r,
                 Remove(Subtract(counter, ref_files[r.sig_files[d + 1]], r.hash_to_idx), d),
                 threshold, counter[d], Append(matches, r.sig_files[d + 1]))
        : d \in MostCommon(counter)}

\* The index the running gather command would use for the query q alone.
IndexAlone(q) ==
    IF args.from_file
    THEN [hash_to_idx |->
              build_sequential(EmptyMap, 1, Some(<<q>>),
                               Threshold(args.threshold_bp, Cardinality(q), args.scaled)),
          sig_files |-> SigFiles]
    ELSE load_revindex(index_file[1], IF args.lazy THEN None ELSE Some(<<q>>))

\* The match lists the running gather command can give the query q alone.
ResultsAlone(q) ==
    LoopResults(IndexAlone(q), build_counter(IndexAlone(q), q),
                Threshold(args.threshold_bp, Cardinality(q), args.scaled), UsizeMax, <<>>)

\* ---- claims ---------------------------------------------------------------------
\* C1: after every iteration of the gather loop, every dataset d still in the
\* counter has counter[d] = |query \cap sketch(d) \ hashes of the chosen
\* matches|, for any index the driver hands to the loop.
C1_CounterIsResidual ==
    \A i \in InLoop :
        Len(task[i].matches) >= 1 =>
            \A d \in DOMAIN task[i].counter : task[i].counter[d] = Residual(task[i], d)

\* C2: the gather loop ends only when the counter is empty or its highest
\* count is below the threshold of the query.
C2_EndsOnlyWhenExhausted ==
    \A i \in DOMAIN task :
        task[i].pc = "finished" =>
            \A d \in DOMAIN task[i].counter : task[i].counter[d] < task[i].threshold

\* C3: every iteration selects a dataset of highest count, and among datasets
\* of equal highest count the one with the smallest DatasetId.
C3_SmallestIdOfMaximum ==
    [][\A i \in DOMAIN task :
          (i \in DOMAIN task' /\ Len(task'[i].matches) = Len(task[i].matches) + 1) =>
              LET dataset_id == task'[i].matches[Len(task'[i].matches)] - 1
              IN /\ dataset_id \in MostCommon(task[i].counter)
                 /\ \A e \in MostCommon(task[i].counter) : dataset_id <= e]_vars

\* C4: load_revindex with queries keeps exactly the persisted keys that are in
\* the union of the query sketches, each with its persisted dataset set.
C4_LoadKeepsUnion ==
    (IndexReady /\ ~args.from_file /\ ~args.lazy /\ Len(queries) >= 1) =>
        revindex.hash_to_idx = Retain(Deserialize(index_file[1]).hash_to_idx, QueryUnion)

\* C5: for the same references and queries, load_revindex with the queries
\* (of the index built without filter) gives the hash_to_idx that
\* build_revindex with the queries gives.
C5_LoadEqualsFilteredBuild ==
    (IndexReady /\ ~args.from_file /\ ~args.lazy /\ Len(queries) >= 1) =>
        revindex.hash_to_idx =
            build_sequential(EmptyMap, 1, Some(queries),
                             BatchThreshold(UsizeMax, queries, 1, args))

\* C6: the counts the matches of a query had when selected sum to at most the
\* number of hashes of the query.
C6_SumOfCountsBounded ==
    \A i \in InLoop : SumSeq(task[i].sizes) <= Cardinality(task[i].query)

\* A query wholly covered by two matches, each bringing hashes of its own.
C6_Witness ==
    \E i \in InLoop :
        /\ Len(task[i].sizes) >= 2
        /\ \A k \in 1..Len(task[i].sizes) : task[i].sizes[k] >= 1
        /\ SumSeq(task[i].sizes) = Cardinality(task[i].query)

\* C7: every recorded match shares at least `threshold` hashes with the query.
C7_MatchSharesThreshold ==
    \A i \in InLoop :
        \A k \in 1..Len(task[i].matches) :
            Cardinality(task[i].query \cap ref_files[task[i].matches[k]]) >= task[i].threshold

\* A match recorded under a positive threshold, sharing exactly that many
\* hashes with the query.
C7_Witness ==
    \E i \in InLoop :
        /\ task[i].threshold >= 1
        /\ \E k \in 1..Len(task[i].matches) :
              Cardinality(task[i].query \cap ref_files[task[i].matches[k]]) = task[i].threshold

\* C8: on the index built with no query filter, build_counter gives every
\* dataset sharing a hash with the query the number of shared hashes, and
\* holds no other dataset.
C8_CounterIsIntersection ==
    (IndexReady /\ ~args.from_file /\ args.lazy) =>
        \A i \in InLoop :
            (task[i].pc = "loop" /\ task[i].matches = <<>>) =>
                task[i].counter =
                    [d \in {p - 1 : p \in {q \in 1..Len(ref_files) :
                                              task[i].query \cap ref_files[q] # {}}} |->
                        Cardinality(task[i].query \cap SketchOf(d))]

\* A counter just built on the unfiltered index: one reference shares two
\* hashes with the query and has a hash outside it, another shares none and
\* is absent.
C8_Witness ==
    /\ IndexReady /\ ~args.from_file /\ args.lazy
    /\ \E i \in InLoop :
          /\ task[i].pc = "loop" /\ task[i].matches = <<>>
          /\ \E d \in DOMAIN task[i].counter :
                /\ task[i].counter[d] = 2
                /\ SketchOf(d) \ task[i].query # {}
          /\ \E p \in 1..Len(ref_files) :
                /\ ref_files[p] # {}
                /\ (p - 1) \notin DOMAIN task[i].counter

\* C9: build_revindex with no queries yields the inverted index of the
\* references, for every schedule of the map and reduce steps; the threshold
\* passed does not change any local map.
C9_BuildIsInvertedIndex ==
    /\ pc = "index_save" => revindex.hash_to_idx = Inverted(Hashes)
    /\ pc = "index_build" =>
          \A p \in 1..Len(ref_files), t \in 0..(MaxThresholdBp + 1) :
              LocalMap(p - 1, ref_files[p], None, t) = [h \in ref_files[p] |-> {p - 1}]

\* An index just built from two references: a hash of both, a hash of one.
C9_Witness ==
    /\ pc = "index_save"
    /\ \E h \in DOMAIN revindex.hash_to_idx : revindex.hash_to_idx[h] = {0, 1}
    /\ \E h \in DOMAIN revindex.hash_to_idx : Cardinality(revindex.hash_to_idx[h]) = 1

\* C10: build_revindex with queries keeps, for every reference, exactly the
\* hashes of its sketch that are in some query: the index is the inverted
\* index restricted to the union of the queries.
C10_FilteredBuildIsRestriction ==
    (IndexReady /\ args.from_file) => revindex.hash_to_idx = Inverted(QueryUnion)

\* An index built with two queries: each brings a key the other lacks, a
\* key is in two references, and a hash of a reference is in no query and
\* is left out.
C10_Witness ==
    /\ IndexReady /\ args.from_file
    /\ Len(queries) = 2
    /\ \E h \in DOMAIN revindex.hash_to_idx : h \in queries[1] \ queries[2]
    /\ \E h \in DOMAIN revindex.hash_to_idx : h \in queries[2] \ queries[1]
    /\ \E h \in DOMAIN revindex.hash_to_idx : Cardinality(revindex.hash_to_idx[h]) = 2
    /\ \E p \in 1..Len(ref_files) : ref_files[p] \ QueryUnion # {}

\* C11: in every RevIndex that build_revindex returns or load_revindex
\* loads, filtered or not, no key maps to an empty set and every DatasetId
\* is a valid index into sig_files.
C11_SetsNonEmptyIdsValid ==
    (pc = "index_save" \/ IndexReady) =>
        \A h \in DOMAIN revindex.hash_to_idx :
            /\ revindex.hash_to_idx[h] # {}
            /\ \A d \in revindex.hash_to_idx[h] : d \in 0..(Len(revindex.sig_files) - 1)

\* A filtered index loaded from the file: a query hash was dropped, and a
\* retained key holds the last DatasetId of sig_files.
C11_Witness ==
    /\ IndexReady /\ ~args.from_file /\ ~args.lazy
    /\ Len(revindex.sig_files) = MaxRefs
    /\ \E h \in DOMAIN revindex.hash_to_idx : (MaxRefs - 1) \in revindex.hash_to_idx[h]
    /\ \E h \in Hashes : h \in QueryUnion /\ h \notin DOMAIN revindex.hash_to_idx

\* C12: the gather loop of a query terminates: every iteration that records a
\* match removes the selected dataset, so the number of keys of the counter
\* strictly decreases, and matches recorded plus keys left never exceed the
\* number of keys the counter had when it was built.
C12_LoopShrinksCounter ==
    [][\A i \in DOMAIN task' :
          task'[i].pc \in {"loop", "finished"} =>
              /\ Len(task'[i].matches) + Cardinality(DOMAIN task'[i].counter)
                     <= Cardinality(DOMAIN build_counter(revindex', task'[i].query))
              /\ (i \in DOMAIN task /\ Len(task'[i].matches) = Len(task[i].matches) + 1) =>
                     /\ Cardinality(DOMAIN task'[i].counter) < Cardinality(DOMAIN task[i].counter)
                     /\ (task'[i].matches[Len(task'[i].matches)] - 1) \notin DOMAIN task'[i].counter]_vars

\* A loop that ran as many iterations as its counter had keys, more than one,
\* and ended with the counter empty.
C12_Witness ==
    \E i \in DOMAIN task :
        /\ task[i].pc = "finished"
        /\ Len(task[i].matches) = MaxRefs
        /\ Len(task[i].matches) = Cardinality(DOMAIN build_counter(revindex, task[i].query))
        /\ DOMAIN task[i].counter = {}

\* C13: for the same RevIndex, the same initial counter and the same
\* threshold the loop records the same datasets in the same order, ties
\* included: two tasks of a batch that gather the same query against the
\* index of the batch end with the same matches.
C13_SameInputsSameMatches ==
    \A i \in DOMAIN task, j \in DOMAIN task :
        (/\ task[i].pc = "finished" /\ task[j].pc = "finished"
         /\ task[i].query = task[j].query) =>
            task[i].matches = task[j].matches

\* C14: when loading a reference sketch fails during the gather of one query,
\* only that query fails: every other query of the batch runs its gather
\* loop to completion and gets its output file written.  Stated for the
\* queries that share no hash with the reference that cannot be read.
C14_OtherQueriesComplete ==
    (pc = "gather_panicked" /\ \E p \in 1..Len(ref_files) : ref_status[p] = "unreadable") =>
        \A j \in DOMAIN task :
            (\A p \in 1..Len(ref_files) :
                ref_status[p] = "unreadable" => query_files[j] \cap ref_files[p] = {}) =>
                    /\ task[j].pc = "finished"
                    /\ query_names[j] \in DOMAIN outputs

\* C15: during build_revindex a reference file with no sketch compatible
\* with the template is silently skipped: the build completes.
C15_NoSketchIsSkipped ==
    (\A p \in 1..Len(ref_files) : ref_status[p] # "unreadable") => pc # "build_panicked"

\* C16: a reference that fails to read or parse aborts the whole build: the
\* build ends in the panic or not at all, no RevIndex is returned, and no
\* index file is written.
C16_FailedReadAbortsBuild ==
    [][(Building /\ \E p \in 1..Len(ref_files) : ref_status[p] = "unreadable") =>
          /\ pc' \in {pc, "build_panicked"}
          /\ revindex' = NoIndex
          /\ index_file' = index_file]_vars

\* `index` has panicked on an unreadable reference after another reference
\* was mapped: nothing is written.
C16_Witness ==
    /\ pc = "build_panicked"
    /\ ~build.queries.some
    /\ \E p \in 1..Len(ref_files) : ref_status[p] = "unreadable"
    /\ \E k \in 1..Len(build.parts) : build.parts[k].done /\ build.parts[k].map # EmptyMap
    /\ index_file = <<>>
    /\ revindex = NoIndex

\* C17: in lazy mode a query whose sketch is empty is skipped and the batch
\* does not fail, with and without --from-file, with and without --preload.
C17_LazyEmptySkipped ==
    (args.lazy /\ \E k \in 1..Len(query_files) : query_files[k] = {}) =>
        /\ pc # "panicked"
        /\ \A i \in DOMAIN task :
              query_files[i] = {} => task[i].pc \in {"waiting", "skipped"}

\* C18: no two query tasks of a batch write to the same output file: a task
\* that writes its output creates a file no task of the batch has written.
C18_NoSharedOutputFile ==
    [][\A i \in DOMAIN task :
          (/\ i \in DOMAIN task'
           /\ task[i].pc # "finished"
           /\ task'[i].pc = "finished") => query_names[i] \notin DOMAIN outputs]_vars

\* C19: the hash_to_idx of build_revindex does not depend on the schedule:
\* whatever neighbours the reduction combines, in whatever order and with
\* either operand the larger, every combined part is the key-wise union of
\* the local maps it stands for, and so is the map of the index returned.
C19_ReduceIsKeywiseUnion ==
    /\ Building =>
          \A k \in 1..Len(build.parts) :
              build.parts[k].done =>
                  build.parts[k].map = KeywiseUnion(LocalMaps, build.parts[k].id + 1, PartEnd(k))
    /\ (pc = "index_save" \/ (pc = "tasks" /\ args.from_file)) =>
          revindex.hash_to_idx = KeywiseUnion(LocalMaps, 1, Len(ref_files))

\* The reduction has combined the second and the third reference first, the
\* larger local map being the first operand, and the two share a key.
C19_Witness ==
    /\ Building
    /\ Len(ref_files) = 3
    /\ Len(build.parts) = 2
    /\ build.parts[1].done /\ build.parts[1].map # EmptyMap
    /\ build.parts[2].done /\ build.parts[2].id = 1
    /\ MapLen(LocalMaps[2]) > MapLen(LocalMaps[3])
    /\ \E h \in DOMAIN LocalMaps[2] : h \in DOMAIN LocalMaps[3]

\* C20: filtering on load changes only the set of keys: sig_files of the
\* loaded index is the persisted list, every key of the loaded index is a
\* persisted key and holds the full persisted set of that key.
C20_FilterChangesOnlyKeys ==
    (IndexReady /\ ~args.from_file) =>
        LET doc == index_file[1]
        IN /\ revindex.sig_files = doc.sig_files
           /\ \A h \in DOMAIN revindex.hash_to_idx :
                 \E e \in 1..Len(doc.hash_to_idx) :
                     /\ doc.hash_to_idx[e][1] = h
                     /\ revindex.hash_to_idx[h] =
                            {doc.hash_to_idx[e][2][j] : j \in 1..Len(doc.hash_to_idx[e][2])}

\* A filtered load that dropped a persisted key and retained a key of two
\* datasets, of an index of two references.
C20_Witness ==
    /\ IndexReady /\ ~args.from_file /\ ~args.lazy
    /\ Len(revindex.sig_files) = 2
    /\ Len(index_file[1].hash_to_idx) > Cardinality(DOMAIN revindex.hash_to_idx)
    /\ \E h \in DOMAIN revindex.hash_to_idx : Cardinality(revindex.hash_to_idx[h]) = 2

\* C21: persisting an index and loading it back with no query filter yields
\* the index that was persisted: the same hash_to_idx mapping and the same
\* sig_files sequence.
C21_LoadOfSaveIsIdentity ==
    [][(pc = "index_save" /\ pc' = "idle") =>
          /\ index_file' # <<>>
          /\ load_revindex(index_file'[1], None) = revindex]_vars

\* An index of two references, with a key of both and more than one key,
\* has been saved and loaded back unfiltered.
C21_Witness ==
    /\ IndexReady /\ ~args.from_file /\ args.lazy
    /\ Len(revindex.sig_files) = 2
    /\ Cardinality(DOMAIN revindex.hash_to_idx) >= 2
    /\ \E h \in DOMAIN revindex.hash_to_idx : revindex.hash_to_idx[h] = {0, 1}
    /\ revindex = load_revindex(index_file[1], None)

\* C22: when no reference shares a hash with the query (no reference at all,
\* or every reference disjoint from the query) the counter of the query is
\* empty, the loop records nothing and the output written is the empty list.
C22_DisjointGivesNoMatch ==
    \A i \in InLoop :
        (\A p \in 1..Len(ref_files) : task[i].query \cap ref_files[p] = {}) =>
            /\ DOMAIN task[i].counter = {}
            /\ task[i].matches = <<>>
            /\ task[i].match_size = UsizeMax
            /\ task[i].pc = "finished" =>
                  /\ query_names[i] \in DOMAIN outputs
                  /\ outputs[query_names[i]] = <<>>

\* A query disjoint from two non-empty references has been gathered against
\* the unfiltered index, and its empty output is written.
C22_Witness ==
    /\ IndexReady /\ args.lazy /\ ~args.from_file
    /\ Len(ref_files) = 2 /\ ref_files[1] # {} /\ ref_files[2] # {}
    /\ \E i \in DOMAIN task :
          /\ task[i].pc = "finished"
          /\ \A p \in 1..Len(ref_files) : task[i].query \cap ref_files[p] = {}
          /\ outputs[query_names[i]] = <<>>

\* C23: in the strict-subtraction scenario the first match is R1 (manifest
\* position 1) with count 3, the count of R2 is then 1, and the result is
\* [R1, R2] when the threshold of the query is 1 and [R1] when it is 2.
C23_StrictSubtraction ==
    \A i \in InLoop :
        /\ Len(task[i].matches) >= 1 =>
              task[i].matches[1] = 1 /\ task[i].sizes[1] = 3
        /\ Len(task[i].matches) = 1 => task[i].counter = [d \in {1} |-> 1]
        /\ (task[i].pc = "finished" /\ task[i].threshold = 1) => task[i].matches = <<1, 2>>
        /\ (task[i].pc = "finished" /\ task[i].threshold = 2) => task[i].matches = <<1>>

\* C24: the threshold of the gather loop of a query q is the integer quotient
\* threshold_bp / (|q| * scaled), of that query alone, and the threshold
\* passed to the build of the index is the minimum of that quotient over
\* the queries of the batch.
C24_ThresholdIsQuotient ==
    LET quotient(q) ==
            CHOOSE t \in 0..args.threshold_bp :
                /\ t * (Cardinality(q) * args.scaled) <= args.threshold_bp
                /\ (t + 1) * (Cardinality(q) * args.scaled) > args.threshold_bp
    IN /\ \A i \in InLoop : task[i].threshold = quotient(task[i].query)
       /\ (args.from_file /\ Len(queries) >= 1 /\ pc \in {"gather_build", "tasks", "done"}) =>
             /\ \E k \in 1..Len(queries) : build.threshold = quotient(queries[k])
             /\ \A k \in 1..Len(queries) : build.threshold <= quotient(queries[k])

\* Two queries of different sizes with different thresholds, scaled 2: both
\* loops have started, on an index built with the smaller threshold.
C24_Witness ==
    /\ pc = "tasks" /\ args.from_file /\ args.scaled = 2
    /\ Len(queries) = 2
    /\ 1 \in InLoop /\ 2 \in InLoop
    /\ task[1].threshold > task[2].threshold
    /\ task[2].threshold >= 1
    /\ build.threshold = task[2].threshold

\* C25: the subtraction step decrements existing counter entries only, by
\* one for every (hash of the match, dataset of that hash) pair and not
\* below zero: no count becomes negative, none increases, and no dataset
\* absent from the counter is inserted.
C25_SubtractionOnlyDecrements ==
    [][\A i \in DOMAIN task :
          (i \in DOMAIN task' /\ Len(task'[i].matches) = Len(task[i].matches) + 1) =>
              LET p == task'[i].matches[Len(task'[i].matches)]
                  before == task[i].counter
                  after == task'[i].counter
              IN /\ DOMAIN after = (DOMAIN before) \ {p - 1}
                 /\ \A d \in DOMAIN after :
                       /\ after[d] >= 0
                       /\ after[d] <= before[d]
                       /\ after[d] = IF before[d] >= Pairs(p, d)
                                     THEN before[d] - Pairs(p, d) ELSE 0]_vars

\* After a match, a dataset of the counter stands at 0 although the match
\* brought more pairs for it than its count was: the decrement was clamped.
C25_Witness ==
    \E i \in InLoop :
        /\ Len(task[i].matches) = 1
        /\ \E d \in DOMAIN task[i].counter :
              /\ task[i].counter[d] = 0
              /\ build_counter(revindex, task[i].query)[d] < Pairs(task[i].matches[1], d)

\* C26: the threshold argument of build_revindex has no effect on the index:
\* for the references and queries (or no queries) of a build, every value
\* of threshold gives the same local map of every reference and the same
\* hash_to_idx.
C26_ThresholdHasNoEffect ==
    /\ Building =>
          \A p \in 1..Len(ref_files), t \in ThresholdValues :
              LocalMap(p - 1, ref_files[p], build.queries, t) = LocalMaps[p]
    /\ (pc = "tasks" /\ args.from_file) =>
          \A t \in ThresholdValues :
              revindex.hash_to_idx = build_sequential(EmptyMap, 1, Some(queries), t)
    /\ pc = "index_save" =>
          \A t \in ThresholdValues :
              revindex.hash_to_idx = build_sequential(EmptyMap, 1, None, t)

\* A filtered build with a threshold of at least 1 has kept the hashes of a
\* reference whose intersection counts do not exceed the threshold.
C26_Witness ==
    /\ pc = "gather_build"
    /\ build.threshold >= 1
    /\ \E k \in 1..Len(build.parts) :
          /\ build.parts[k].done
          /\ build.parts[k].map # EmptyMap
          /\ \A j \in 1..Len(queries) :
                Intersection(queries[j], ref_files[build.parts[k].id + 1]).size
                    <= build.threshold

\* C27: the matches recorded for a query do not depend on the other queries
\* of the batch: the match list of a query gathered in a batch is one the
\* same command gives for that query alone, with an index built from the
\* manifest and with an index loaded from the file.
C27_BatchDoesNotMatter ==
    \A i \in DOMAIN task :
        task[i].pc = "finished" => task[i].matches \in ResultsAlone(task[i].query)

\* C28: the counter never over-estimates: at every point of the gather loop
\* every dataset d of the counter has counter[d] <= |query \cap sketch(d) \
\* hashes of the matches chosen so far|, whatever index the loop was given.
C28_CounterNeverAbove ==
    \A i \in InLoop :
        \A d \in DOMAIN task[i].counter : task[i].counter[d] <= Residual(task[i], d)

\* After a match the counter holds a dataset whose count is its residual
\* intersection and is not 0.
C28_Witness ==
    \E i \in InLoop :
        /\ Len(task[i].matches) >= 1
        /\ \E d \in DOMAIN task[i].counter :
              task[i].counter[d] = Residual(task[i], d) /\ task[i].counter[d] >= 1

\* C29: every dataset recorded as a match had a count of at least 1 when it
\* was selected, for every threshold, 0 included.
C29_MatchCountsPositive ==
    \A i \in InLoop : \A k \in 1..Len(task[i].sizes) : task[i].sizes[k] >= 1

\* C29, amended: every dataset recorded as a match had a count of at least
\* the threshold of the query when it was selected; the first match of a
\* query had a count of at least 1, and so had every match of a query whose
\* threshold is at least 1.  With threshold 0 a later match can have count 0.
C29_MatchCountsAtLeastThreshold ==
    \A i \in InLoop :
        /\ \A k \in 1..Len(task[i].sizes) :
              /\ task[i].sizes[k] >= task[i].threshold
              /\ task[i].sizes[k] >= 0
              /\ task[i].threshold >= 1 => task[i].sizes[k] >= 1
        /\ Len(task[i].sizes) >= 1 => task[i].sizes[1] >= 1
        /\ Len(task[i].sizes) = Len(task[i].matches)

\* A query with threshold 0 has ended with two matches, the second of which
\* had count 0 when it was selected.
C29_Witness ==
    \E i \in DOMAIN task :
        /\ task[i].pc = "finished"
        /\ task[i].threshold = 0
        /\ Len(task[i].sizes) = 2
        /\ task[i].sizes[1] >= 1
        /\ task[i].sizes[2] = 0

\* C30: no dataset appears twice in the match list of a query: a dataset
\* that was selected is out of the counter and stays out of it.
C30_NoDatasetTwice ==
    \A i \in InLoop :
        /\ \A j \in 1..Len(task[i].matches), k \in 1..Len(task[i].matches) :
              j # k => task[i].matches[j] # task[i].matches[k]
        /\ \A k \in 1..Len(task[i].matches) :
              (task[i].matches[k] - 1) \notin DOMAIN task[i].counter

\* A query has ended with two matches, and the second match holds a key of
\* the index whose set names the first: its subtraction met the dataset
\* that had been removed.
C30_Witness ==
    \E i \in DOMAIN task :
        /\ task[i].pc = "finished"
        /\ Len(task[i].matches) = 2
        /\ \E h \in ref_files[task[i].matches[2]] \cap DOMAIN revindex.hash_to_idx :
              (task[i].matches[1] - 1) \in revindex.hash_to_idx[h]

====
